---- MODULE Spec2Model ----
(***************************************************************************)
(* MeetScribe: the command-line run of the INPUT -> CONVERT -> LLM ->      *)
(* OUTPUT pipeline (meetscribe/cli.py, meetscribe/core/runner.py) over a   *)
(* configuration loaded by meetscribe/core/config.py.                      *)
(***************************************************************************)
EXTENDS Integers, Sequences, FiniteSets, TLC

\* ------------------------------------------------------------------ bounds
\* Largest number of output entries a configuration file holds, counting the
\* entries under 'output' and under 'outputs' together.
MaxSpecs == 2

\* Largest execution_group used in the configurations with execution groups.
MaxGroup == 1

\* Largest number of plugins registered at the same time.
MaxPlugins == 2

\* Largest number of entries of an 'output' or 'outputs' list of a loaded
\* configuration file.
MaxOutputs == 2

\* Largest length of the channel argument of generate_meeting_id.
MaxChannelLen == 3


\* Largest number of days the clock advances; within a day it advances by
\* MaxSteps half-cooldown steps.
MaxDays == 1
MaxSteps == MaxDays + 1

\* Largest number of callback calls recorded.
MaxCallbacks == 3

\* ------------------------------------------------- configuration vocabulary
\* Output formats used in the configurations (both are built-in formats).
Formats == {"markdown", "pdf"}

\* The built-in formats a renderer can be built for in this model.
KnownFormats == Formats \cup {"url", "webhook"}

VALID_INPUT_PROVIDERS == {"file", "zip", "discord", "meet", "google-meet", "zoom", "webrtc", "obs", "proctap"}
VALID_CONVERT_ENGINES == {"passthrough", "whisper", "whisper-api", "faster-whisper", "gemini", "deepgram"}
VALID_LLM_ENGINES == {"notebooklm", "chatgpt", "gpt", "claude", "gemini"}
VALID_OUTPUT_FORMATS == {"url", "markdown", "md", "json", "pdf", "docs", "google-docs", "sheets", "google-sheets", "webhook", "discord"}

\* OutputConfig: one output target spec.  The configurations of a run leave
\* execution_group and wait_for_group at the defaults from_dict gives them.
OutputConfig ==
    [format : Formats,
     enabled : BOOLEAN,
     on_error : {"continue", "stop"},
     execution_group : {0},
     depends_on : {d \in SUBSET Formats : Cardinality(d) <= 1},
     wait_for_group : {TRUE}]

\* Output target specs that differ in execution_group and wait_for_group and
\* leave enabled and depends_on at their defaults.
GroupedOutputConfig ==
    [format : Formats,
     enabled : {TRUE},
     on_error : {"continue", "stop"},
     execution_group : 0..MaxGroup,
     depends_on : {{}},
     wait_for_group : BOOLEAN]

\* from_dict: an output entry with the defaults for the keys it leaves out.
OutputEntry(fmt, group, deps) ==
    [format |-> fmt, enabled |-> TRUE, on_error |-> "continue",
     execution_group |-> group, depends_on |-> deps, wait_for_group |-> TRUE]

\* The four output entries of the documented execution-group configuration
\* (test_parse_yaml_with_execution_groups).
ExampleSpecs ==
    <<OutputEntry("url", 0, {}), OutputEntry("markdown", 0, {}),
      OutputEntry("pdf", 1, {}), OutputEntry("webhook", 2, {"pdf"})>>

\* InputConfig: the provider name and the keys present in its params.
InputConfig ==
    {[provider |-> "file", params |-> {"audio_path"}],
     [provider |-> "file", params |-> {}],
     [provider |-> "nosuch", params |-> {}]}

\* The shapes of the output sections of the data: 'output' is absent, one
\* dictionary or a list of n entries; 'outputs' is absent or a list of m.
ConfigShapes ==
    {s \in [output_kind : {"none", "single", "list"}, n : 0..MaxSpecs,
            outputs_kind : {"none", "list"}, m : 0..MaxSpecs] :
        /\ s.n + s.m <= MaxSpecs
        /\ (s.output_kind = "none" => s.n = 0)
        /\ (s.output_kind = "single" => s.n = 1)
        /\ (s.outputs_kind = "none" => s.m = 0)}

\* PipelineConfig: the configuration data of one run, of shape s.
PipelineConfig(s, i, o, os, cl) ==
    [input |-> i, convert |-> "passthrough", llm |-> "notebooklm",
     output_kind |-> s.output_kind, output |-> o,
     outputs_kind |-> s.outputs_kind, outputs |-> os,
     cleanup_audio |-> cl]

\* Values the providers return.
AudioPaths == {"audio1", "audio2"}
Transcripts == {"transcript1", "transcript2"}
MinutesValues == {"minutes1", "minutes2"}
OutputPaths == {"out1"}
MeetingIds == {"meeting"}

RunnerStages == <<"input", "convert", "llm", "output">>

VARIABLES
    config,         \* the configuration data read from the file
    pc,             \* position of cmd_run
    validated,      \* providers whose validate_config returned True
    audio_path,     \* run(): local audio_path ("none" before it is assigned)
    transcript,     \* run(): local transcript
    minutes,        \* run(): local minutes
    output_path,    \* run(): local output_path
    calls,          \* provider calls made so far, in order: stage, argument, result
    rendered,       \* format -> "none" | "succeeded" | "failed": result of render()
    audio_deleted,  \* whether cleanup unlinked the raw audio
    cleanup_log,    \* what each pass through the cleanup step of run() did
    error,          \* exception that ended the command ("none" if none)
    exit_code,      \* process exit code (-1 while running)
    plugins,        \* PluginRegistry._plugins: name -> class (NoClass if absent)
    metadata,       \* PluginRegistry._metadata: name -> provider_type
    lastcall,       \* the last factory or configuration call: kind, name given, result
    daemon_config,  \* DiscordDaemon: mode, channel_ids, whether webhook_url is set
    members,        \* channel -> number of non-bot members in the voice channel
    active_recordings, \* DiscordDaemon._active_recordings: channel -> meeting id
    last_recording, \* DiscordDaemon._last_recording: channel -> time of the last start
    now,            \* datetime.now(), in seconds
    callbacks,      \* the on_meeting_start / on_meeting_end calls made, in order
    pending,        \* channels with a voice update suspended before _on_user_left
    meeting_args    \* the arguments of generate_meeting_id: source, channel, start_time

vars == <<config, pc, validated, audio_path, transcript, minutes, output_path,
          calls, rendered, audio_deleted, cleanup_log, error, exit_code,
         plugins, metadata, lastcall,
         daemon_config, members, active_recordings, last_recording, now, callbacks,
         pending, meeting_args>>

daemon_vars == <<daemon_config, members, active_recordings, last_recording, now,
                 callbacks, pending>>

\* ------------------------------------------------------------ config.py
\* Filter a sequence of output configs down to the enabled ones, in order.
RECURSIVE EnabledOnly(_)
EnabledOnly(s) ==
    IF s = << >> THEN << >>
    ELSE IF Head(s).enabled THEN <<Head(s)>> \o EnabledOnly(Tail(s))
         ELSE EnabledOnly(Tail(s))

\* PipelineConfig.get_outputs
get_outputs(c) ==
    IF c.outputs # << >> THEN EnabledOnly(c.outputs)
    ELSE IF c.output_kind = "single" THEN EnabledOnly(c.output)
    ELSE IF c.output_kind = "list" /\ c.output # << >> THEN EnabledOnly(c.output)
    ELSE << >>

\* PipelineConfig._validate_structure: the set of structural errors.
validate_structure(c) ==
    IF c.output_kind = "none" /\ c.outputs_kind = "none"
    THEN {"Missing required section: 'output' or 'outputs'"}
    ELSE {}

\* PipelineConfig._validate_provider_params
validate_provider_params(c) ==
    IF c.input.provider = "file" /\ "audio_path" \notin c.input.params
    THEN {"File provider requires 'audio_path' parameter"}
    ELSE {}

\* PipelineConfig.validate: the set of semantic errors.
PipelineConfig_validate(c) ==
    (IF c.input.provider \notin VALID_INPUT_PROVIDERS THEN {"Unknown input provider"} ELSE {})
    \cup (IF c.convert \notin VALID_CONVERT_ENGINES THEN {"Unknown convert engine"} ELSE {})
    \cup (IF c.llm \notin VALID_LLM_ENGINES THEN {"Unknown LLM engine"} ELSE {})
    \cup (IF \E i \in 1..Len(get_outputs(c)) : get_outputs(c)[i].format \notin VALID_OUTPUT_FORMATS
          THEN {"Unknown output format"} ELSE {})
    \cup validate_provider_params(c)

\* PipelineConfig.from_dict: the errors that make it raise ConfigValidationError.
from_dict_errors(c) ==
    IF validate_structure(c) # {} THEN validate_structure(c)
    ELSE PipelineConfig_validate(c)

\* ------------------------------------------------- names and normalisation
\* A name is the sequence of its characters.
Names ==
    {<<"f", "i", "l", "e">>, <<"F", "I", "L", "E">>, <<"g", "o", "o", "g", "l", "e", "_", "m", "e", "e", "t">>, <<"z", "o", "o", "m">>,
     <<"c", "u", "s", "t", "o", "m", "-", "i", "n", "p", "u", "t">>, <<"C", "u", "s", "t", "o", "m", "_", "I", "n", "p", "u", "t">>, <<"m", "d">>, <<"g", "e", "m", "i", "n", "i">>}

\* str.lower() on the characters that occur in Names.
lower(name) ==
    LET up == [F |-> "f", I |-> "i", L |-> "l", E |-> "e", C |-> "c"]
    IN  [k \in 1..Len(name) |-> IF name[k] \in DOMAIN up THEN up[name[k]] ELSE name[k]]

\* str.replace(a, b) for single characters a and b.
replace(name, a, b) == [k \in 1..Len(name) |-> IF name[k] = a THEN b ELSE name[k]]

\* ------------------------------------------------------------ core/plugin.py
NoClass == "None"

\* The plugins a caller registers: a provider class and the provider_type of
\* its metadata.
PluginClasses ==
    {[cls |-> "CustomInput", provider_type |-> "input"],
     [cls |-> "OverrideFileProvider", provider_type |-> "input"]}

StageKinds == {"input", "converter", "llm", "output"}

NoCall == [kind |-> "none", name |-> << >>, result |-> "none"]

get_plugin_class(reg, name) == IF name \in DOMAIN reg THEN reg[name] ELSE NoClass

\* The else branch shared by the input, converter and llm factories.
plugin_fallback(reg, name) ==
    IF get_plugin_class(reg, name) # NoClass
    THEN get_plugin_class(reg, name)
    ELSE "ValueError"

\* ------------------------------------------------------------ factories
get_input_provider(reg, provider_name) ==
    LET provider == replace(replace(lower(provider_name), "_", "-"), " ", "-")
    IN  CASE provider = <<"f", "i", "l", "e">> -> "FileProvider"
          [] provider = <<"z", "i", "p">> -> "ZipProvider"
          [] provider \in {<<"m", "e", "e", "t">>, <<"g", "o", "o", "g", "l", "e", "-", "m", "e", "e", "t">>, <<"g", "m", "e", "e", "t">>} -> "GoogleMeetProvider"
          [] provider \in {<<"d", "i", "s", "c", "o", "r", "d">>, <<"d", "i", "s", "c", "o", "r", "d", "-", "b", "o", "t">>} -> "DiscordBotProvider"
          [] provider = <<"w", "e", "b", "r", "t", "c">> -> "WebRTCProvider"
          [] provider = <<"o", "b", "s">> -> "OBSProvider"
          [] provider = <<"z", "o", "o", "m">> -> "NotImplementedError"
          [] provider = <<"p", "r", "o", "c", "t", "a", "p">> -> "NotImplementedError"
          [] OTHER -> plugin_fallback(reg, provider)

get_converter(reg, engine_name) ==
    LET engine == replace(lower(engine_name), "_", "-")
    IN  CASE engine = <<"p", "a", "s", "s", "t", "h", "r", "o", "u", "g", "h">> -> "PassthroughConverter"
          [] engine \in {<<"w", "h", "i", "s", "p", "e", "r">>, <<"w", "h", "i", "s", "p", "e", "r", "-", "a", "p", "i">>} -> "WhisperAPIConverter"
          [] engine = <<"f", "a", "s", "t", "e", "r", "-", "w", "h", "i", "s", "p", "e", "r">> -> "FasterWhisperConverter"
          [] engine \in {<<"g", "e", "m", "i", "n", "i">>, <<"g", "e", "m", "i", "n", "i", "-", "a", "u", "d", "i", "o">>} -> "GeminiAudioConverter"
          [] engine = <<"d", "e", "e", "p", "g", "r", "a", "m">> -> "DeepgramConverter"
          [] OTHER -> plugin_fallback(reg, engine)

get_llm_provider(reg, engine_name) ==
    LET engine == replace(replace(lower(engine_name), "_", "-"), " ", "-")
    IN  CASE engine = <<"n", "o", "t", "e", "b", "o", "o", "k", "l", "m">> -> "NotebookLMProvider"
          [] engine \in {<<"c", "h", "a", "t", "g", "p", "t">>, <<"g", "p", "t">>, <<"o", "p", "e", "n", "a", "i">>, <<"g", "p", "t", "-", "4">>, <<"g", "p", "t", "-", "3", ".", "5">>} -> "ChatGPTProvider"
          [] engine \in {<<"c", "l", "a", "u", "d", "e">>, <<"a", "n", "t", "h", "r", "o", "p", "i", "c">>, <<"c", "l", "a", "u", "d", "e", "-", "3">>} -> "ClaudeProvider"
          [] engine \in {<<"g", "e", "m", "i", "n", "i">>, <<"g", "o", "o", "g", "l", "e">>, <<"b", "a", "r", "d">>} -> "GeminiProvider"
          [] OTHER -> plugin_fallback(reg, engine)

get_output_renderer(reg, format_name) ==
    LET fmt == replace(replace(lower(format_name), "_", "-"), " ", "-")
    IN  CASE fmt = <<"u", "r", "l">> -> "URLRenderer"
          [] fmt \in {<<"m", "a", "r", "k", "d", "o", "w", "n">>, <<"m", "d">>} -> "MarkdownRenderer"
          [] fmt = <<"j", "s", "o", "n">> -> "JSONRenderer"
          [] fmt = <<"p", "d", "f">> -> "PDFRenderer"
          [] fmt \in {<<"d", "o", "c", "s">>, <<"g", "o", "o", "g", "l", "e", "-", "d", "o", "c", "s">>, <<"g", "d", "o", "c", "s">>} -> "GoogleDocsRenderer"
          [] fmt \in {<<"s", "h", "e", "e", "t", "s">>, <<"g", "o", "o", "g", "l", "e", "-", "s", "h", "e", "e", "t", "s">>, <<"s", "p", "r", "e", "a", "d", "s", "h", "e", "e", "t">>, <<"g", "s", "h", "e", "e", "t", "s">>} -> "GoogleSheetsRenderer"
          [] fmt \in {<<"w", "e", "b", "h", "o", "o", "k">>, <<"d", "i", "s", "c", "o", "r", "d", "-", "w", "e", "b", "h", "o", "o", "k">>, <<"d", "i", "s", "c", "o", "r", "d">>} -> "DiscordWebhookRenderer"
          [] OTHER -> "ValueError"

\* The factory of a stage kind.
resolve(reg, kind, name) ==
    CASE kind = "input" -> get_input_provider(reg, name)
      [] kind = "converter" -> get_converter(reg, name)
      [] kind = "llm" -> get_llm_provider(reg, name)
      [] kind = "output" -> get_output_renderer(reg, name)

\* ------------------------------------------------ inputs/discord_provider.py
Channels == {"general", "standup"}

\* DiscordDaemon.__init__: the defaults of min_users and cooldown.
min_users == 2
cooldown == 300

\* timedelta.seconds is the seconds part of a duration, without its days.
SecondsPerDay == 86400
timedelta_seconds(d) == d % SecondsPerDay

\* Channels hold up to min_users non-bot members: the handlers only compare
\* the number of members with min_users.
MaxUsers == min_users

\* No entry in _active_recordings / _last_recording.
NoMeeting == [channel |-> "none", at |-> -1]
Never == -1

\* The configurations of a daemon: mode, the channels to monitor (empty =
\* all) and whether a webhook_url is configured.
DaemonConfig ==
    [mode : {"notify", "auto_record"}, channel_ids : {{}, {"general"}}, webhook_url : BOOLEAN]

\* DiscordDaemon.__init__, with the two callbacks registered.
DiscordDaemon_init(cfg) ==
    /\ daemon_config = cfg
    /\ members = [ch \in Channels |-> 0]
    /\ active_recordings = [ch \in Channels |-> NoMeeting]
    /\ last_recording = [ch \in Channels |-> Never]
    /\ now = 0
    /\ callbacks = << >>
    /\ pending = {}

\* ------------------------------------------------------- core/meeting_id.py
\* Strings are sequences of characters.
Digits == <<"0", "1", "2", "3", "4", "5", "6", "7", "8", "9">>
Letters ==
    {"a", "b", "c", "d", "e", "f", "g", "h", "i", "j", "k", "l", "m", "n", "o", "p", "q", "r",
     "s", "t", "u", "v", "w", "x", "y", "z", "F", "I", "L", "E", "C", "T"}

\* The regular expression class \w
IsWordChar(c) == c \in Letters \/ c \in {Digits[k] : k \in 1..10} \/ c = "_"

\* The start times: datetime values with their six fields.
StartTimes ==
    <<[year |-> 2025, month |-> 11, day |-> 21, hour |-> 19, minute |-> 0, second |-> 0],
      [year |-> 2025, month |-> 11, day |-> 21, hour |-> 9, minute |-> 5, second |-> 30]>>

\* The characters of the channel arguments.
ChannelChars == {"a", "1", "_", "-", "!"}

Sources == {<<"d", "i", "s", "c", "o", "r", "d">>, <<"F", "I", "L", "E">>}

\* strftime: n written with two digits, and a year with four.
two_digits(n) == <<Digits[(n \div 10) + 1], Digits[(n % 10) + 1]>>
four_digits(n) == two_digits(n \div 100) \o two_digits(n % 100)

\* start_time.strftime("%Y-%m-%dT%H-%M")
strftime(t) ==
    four_digits(t.year) \o <<"-">> \o two_digits(t.month) \o <<"-">> \o two_digits(t.day)
    \o <<"T">> \o two_digits(t.hour) \o <<"-">> \o two_digits(t.minute)

\* re.sub(r"_+", "_", s)
RECURSIVE collapse_underscores(_)
collapse_underscores(str) ==
    IF Len(str) < 2 THEN str
    ELSE IF str[1] = "_" /\ str[2] = "_" THEN collapse_underscores(Tail(str))
    ELSE <<str[1]>> \o collapse_underscores(Tail(str))

\* str.strip("_")
RECURSIVE strip_underscores(_)
strip_underscores(str) ==
    IF str = << >> THEN str
    ELSE IF str[1] = "_" THEN strip_underscores(Tail(str))
    ELSE IF str[Len(str)] = "_" THEN strip_underscores(SubSeq(str, 1, Len(str) - 1))
    ELSE str

\* _sanitize_component
sanitize_component(component) ==
    strip_underscores(collapse_underscores(
        [k \in 1..Len(component) |->
            IF IsWordChar(component[k]) \/ component[k] = "-" THEN component[k] ELSE "_"]))

\* generate_meeting_id(source, channel_or_pid, start_time)
generate_meeting_id(source, channel_or_pid, start_time) ==
    strftime(start_time) \o <<"_">> \o sanitize_component(lower(source))
    \o <<"_">> \o sanitize_component(channel_or_pid)

\* The position of the first underscore of str, 0 if it has none.
find_underscore(str) ==
    IF \E k \in 1..Len(str) : str[k] = "_"
    THEN CHOOSE k \in 1..Len(str) : str[k] = "_" /\ \A j \in 1..(k - 1) : str[j] # "_"
    ELSE 0

IsDigit(c) == c \in {Digits[k] : k \in 1..10}
digit_value(c) == CHOOSE n \in 0..9 : Digits[n + 1] = c
number(str) ==
    IF Len(str) = 2 THEN 10 * digit_value(str[1]) + digit_value(str[2])
    ELSE 1000 * digit_value(str[1]) + 100 * digit_value(str[2])
         + 10 * digit_value(str[3]) + digit_value(str[4])

\* \d{4}-\d{2}-\d{2}T\d{2}-\d{2}(?:-\d{2})?
matches_timestamp(str) ==
    /\ Len(str) \in {16, 19}
    /\ \A k \in 1..Len(str) :
          IF k \in {5, 8, 14, 17} THEN str[k] = "-"
          ELSE IF k = 11 THEN str[k] = "T"
          ELSE IsDigit(str[k])

\* datetime.strptime of a matched timestamp
strptime(str) ==
    [year |-> number(SubSeq(str, 1, 4)), month |-> number(SubSeq(str, 6, 7)),
     day |-> number(SubSeq(str, 9, 10)), hour |-> number(SubSeq(str, 12, 13)),
     minute |-> number(SubSeq(str, 15, 16)),
     second |-> IF Len(str) = 19 THEN number(SubSeq(str, 18, 19)) ELSE 0]

\* parse_meeting_id_extended: the match of
\* ^(timestamp)_([^_]+)_([^_]+)(?:_(.+))?$ and the components, or valid = FALSE
\* where the function raises ValueError.
parse_meeting_id_extended(meeting_id) ==
    LET p1 == find_underscore(meeting_id)
        rest1 == SubSeq(meeting_id, p1 + 1, Len(meeting_id))
        p2 == find_underscore(rest1)
        rest2 == SubSeq(rest1, p2 + 1, Len(rest1))
        p3 == find_underscore(rest2)
        channel == IF p3 = 0 THEN rest2 ELSE SubSeq(rest2, 1, p3 - 1)
        suffix == IF p3 = 0 THEN << >> ELSE SubSeq(rest2, p3 + 1, Len(rest2))
    IN  IF /\ p1 > 0
           /\ matches_timestamp(SubSeq(meeting_id, 1, p1 - 1))
           /\ p2 > 1
           /\ channel # << >>
           /\ (p3 = 0 \/ suffix # << >>)
        THEN [valid |-> TRUE, start_time |-> strptime(SubSeq(meeting_id, 1, p1 - 1)),
              source |-> SubSeq(rest1, 1, p2 - 1), channel |-> channel, suffix |-> suffix]
        ELSE [valid |-> FALSE, start_time |-> StartTimes[1], source |-> << >>,
              channel |-> << >>, suffix |-> << >>]

\* validate_meeting_id
validate_meeting_id(meeting_id) == parse_meeting_id_extended(meeting_id).valid

\* ------------------------------------------------------------ cli.py / runner.py
\* The state of cmd_run before load_config, for the configuration data c.
InitRun(c) ==
    /\ config = c
    /\ pc = "load_config"
    /\ validated = {}
    /\ audio_path = "none"
    /\ transcript = "none"
    /\ minutes = "none"
    /\ output_path = "none"
    /\ calls = << >>
    /\ rendered = [f \in KnownFormats |-> "none"]
    /\ audio_deleted = FALSE
    /\ cleanup_log = << >>
    /\ error = "none"
    /\ exit_code = -1
    /\ plugins = [n \in Names |-> NoClass]
    /\ metadata = [n \in Names |-> NoClass]
    /\ lastcall = NoCall

\* A command started with the configuration data c; no daemon is running,
\* the meeting id is generated for channel "default" (cmd_run).
InitWith(c) ==
    /\ InitRun(c)
    /\ meeting_args = [source |-> <<"f", "i", "l", "e">>, channel |-> <<"d", "e", "f", "a", "u", "l", "t">>, start_time |-> StartTimes[1]]
    /\ DiscordDaemon_init([mode |-> "notify", channel_ids |-> {}, webhook_url |-> FALSE])

Init ==
    \E s \in ConfigShapes, i \in InputConfig, cl \in BOOLEAN :
       \E o \in [1..s.n -> OutputConfig], os \in [1..s.m -> OutputConfig] :
          InitWith(PipelineConfig(s, i, o, os, cl))

\* Runs over configurations whose entries use execution groups.
InitGroups ==
    \E s \in ConfigShapes, i \in InputConfig, cl \in BOOLEAN :
       \E o \in [1..s.n -> GroupedOutputConfig], os \in [1..s.m -> GroupedOutputConfig] :
          InitWith(PipelineConfig(s, i, o, os, cl))

\* Runs over the example specs, given as the 'output' list, as the 'outputs'
\* list, or as the 'outputs' list beside a single 'output' entry.
InitExample ==
    \E i \in InputConfig, cl \in BOOLEAN :
       \/ InitWith([input |-> i, convert |-> "passthrough", llm |-> "notebooklm",
                    output_kind |-> "list", output |-> ExampleSpecs,
                    outputs_kind |-> "none", outputs |-> << >>, cleanup_audio |-> cl])
       \/ InitWith([input |-> i, convert |-> "passthrough", llm |-> "notebooklm",
                    output_kind |-> "none", output |-> << >>,
                    outputs_kind |-> "list", outputs |-> ExampleSpecs, cleanup_audio |-> cl])
       \/ \E k \in 1..Len(ExampleSpecs) :
             InitWith([input |-> i, convert |-> "passthrough", llm |-> "notebooklm",
                       output_kind |-> "single", output |-> <<ExampleSpecs[k]>>,
                       outputs_kind |-> "list", outputs |-> ExampleSpecs, cleanup_audio |-> cl])

\* main(): an exception escaping the command is printed and exits with 1.
Fail(e) ==
    /\ pc' = "exit"
    /\ error' = e
    /\ exit_code' = 1

\* cmd_run: config = load_config(path)
LoadConfig ==
    /\ pc = "load_config"
    /\ IF from_dict_errors(config) # {}
       THEN Fail("ConfigValidationError")
       ELSE /\ pc' = "setup"
            /\ UNCHANGED <<error, exit_code>>
    /\ UNCHANGED <<meeting_args, daemon_vars, plugins, metadata, lastcall, cleanup_log, config, validated, audio_path, transcript, minutes, output_path,
                   calls, rendered, audio_deleted>>

\* PipelineRunner.setup: _setup_output_renderer reads config.output.format,
\* which exists only when 'output' is a single OutputConfig.
Setup ==
    /\ pc = "setup"
    /\ IF config.output_kind # "single"
       THEN Fail("AttributeError")
       ELSE /\ pc' = "validate"
            /\ UNCHANGED <<error, exit_code>>
    /\ UNCHANGED <<meeting_args, daemon_vars, plugins, metadata, lastcall, cleanup_log, config, validated, audio_path, transcript, minutes, output_path,
                   calls, rendered, audio_deleted>>

\* The providers checked before the first one whose validate_config is false.
RECURSIVE PassedBefore(_, _)
PassedBefore(ok, i) ==
    IF i > Len(RunnerStages) THEN {}
    ELSE IF ok[RunnerStages[i]] THEN {RunnerStages[i]} \cup PassedBefore(ok, i + 1)
         ELSE {}

\* validate() with the results of validate_config ignored.
ValidateIgnoresResult ==
    /\ pc = "validate"
    /\ \E ok \in [{"input", "convert", "llm", "output"} -> BOOLEAN] :
          validated' = PassedBefore(ok, 1)
    /\ pc' = "record"
    /\ UNCHANGED <<meeting_args, daemon_vars, plugins, metadata, lastcall, cleanup_log, config, audio_path, transcript, minutes, output_path,
                   calls, rendered, audio_deleted, cleanup_log, error, exit_code>>

\* PipelineRunner.validate: the four validate_config checks, in order; the
\* first false one raises ValueError, which ends the command.
PipelineRunner_validate ==
    /\ pc = "validate"
    /\ \E ok \in [{"input", "convert", "llm", "output"} -> BOOLEAN] :
          /\ validated' = PassedBefore(ok, 1)
          /\ IF \A s \in DOMAIN ok : ok[s]
             THEN /\ pc' = "record"
                  /\ UNCHANGED <<error, exit_code>>
             ELSE Fail("ValueError")
    /\ UNCHANGED <<meeting_args, daemon_vars, plugins, metadata, lastcall, cleanup_log, config, audio_path, transcript, minutes, output_path,
                   calls, rendered, audio_deleted>>

\* Record that calls the input provider again when it has failed once.
RecordRetries ==
    /\ pc = "record"
    /\ \/ \E a \in AudioPaths :
             /\ calls' = Append(calls, [stage |-> "record", arg |-> "meeting", ret |-> a])
             /\ audio_path' = a
             /\ pc' = "transcribe"
             /\ UNCHANGED <<error, exit_code>>
       \/ /\ calls = << >>
          /\ calls' = Append(calls, [stage |-> "record", arg |-> "meeting", ret |-> "raise"])
          /\ UNCHANGED <<audio_path, pc, error, exit_code>>
       \/ /\ calls # << >>
          /\ calls' = Append(calls, [stage |-> "record", arg |-> "meeting", ret |-> "raise"])
          /\ Fail("RuntimeError")
          /\ UNCHANGED audio_path
    /\ UNCHANGED <<meeting_args, daemon_vars, plugins, metadata, lastcall, cleanup_log, config, validated, transcript, minutes, output_path,
                   rendered, audio_deleted>>

\* run(), stage 1: audio_path = self.input_provider.record(meeting_id)
\* Each call is logged with its argument and with what it returned
\* ("raise" when it raised); an exception is re-raised as RuntimeError.
Record ==
    /\ pc = "record"
    /\ \/ \E a \in AudioPaths :
             /\ calls' = Append(calls, [stage |-> "record", arg |-> "meeting", ret |-> a])
             /\ audio_path' = a
             /\ pc' = "transcribe"
             /\ UNCHANGED <<error, exit_code>>
       \/ /\ calls' = Append(calls, [stage |-> "record", arg |-> "meeting", ret |-> "raise"])
          /\ Fail("RuntimeError")
          /\ UNCHANGED audio_path
    /\ UNCHANGED <<meeting_args, daemon_vars, plugins, metadata, lastcall, cleanup_log, config, validated, transcript, minutes, output_path,
                   rendered, audio_deleted>>

\* Transcribe with the failure of the converter swallowed.
TranscribeSwallowsFailure ==
    /\ pc = "transcribe"
    /\ \/ \E t \in Transcripts :
             /\ calls' = Append(calls, [stage |-> "transcribe", arg |-> audio_path, ret |-> t])
             /\ transcript' = t
       \/ /\ calls' = Append(calls, [stage |-> "transcribe", arg |-> audio_path, ret |-> "raise"])
          /\ UNCHANGED transcript
    /\ pc' = "generate_minutes"
    /\ UNCHANGED <<meeting_args, daemon_vars, plugins, metadata, lastcall, cleanup_log, config, validated, audio_path, minutes, output_path,
                   rendered, audio_deleted, error, exit_code>>

\* Transcribe with the cleanup of the raw audio done on the failure path too
\* (as a finally clause would).
TranscribeFailureCleansUp ==
    /\ pc = "transcribe"
    /\ \/ \E t \in Transcripts :
             /\ calls' = Append(calls, [stage |-> "transcribe", arg |-> audio_path, ret |-> t])
             /\ transcript' = t
             /\ pc' = "generate_minutes"
             /\ UNCHANGED <<error, exit_code, cleanup_log, audio_deleted>>
       \/ /\ calls' = Append(calls, [stage |-> "transcribe", arg |-> audio_path, ret |-> "raise"])
          /\ Fail("RuntimeError")
          /\ cleanup_log' = Append(cleanup_log, IF config.cleanup_audio THEN "deleted" ELSE "off")
          /\ audio_deleted' = config.cleanup_audio
          /\ UNCHANGED transcript
    /\ UNCHANGED <<meeting_args, daemon_vars, plugins, metadata, lastcall, config, validated, audio_path, minutes, output_path, rendered>>

\* run(), stage 2: transcript = self.converter.transcribe(audio_path, meeting_id)
Transcribe ==
    /\ pc = "transcribe"
    /\ \/ \E t \in Transcripts :
             /\ calls' = Append(calls, [stage |-> "transcribe", arg |-> audio_path, ret |-> t])
             /\ transcript' = t
             /\ pc' = "generate_minutes"
             /\ UNCHANGED <<error, exit_code>>
       \/ /\ calls' = Append(calls, [stage |-> "transcribe", arg |-> audio_path, ret |-> "raise"])
          /\ Fail("RuntimeError")
          /\ UNCHANGED transcript
    /\ UNCHANGED <<meeting_args, daemon_vars, plugins, metadata, lastcall, cleanup_log, config, validated, audio_path, minutes, output_path,
                   rendered, audio_deleted>>

\* GenerateMinutes handing the wrong local (audio_path) to the LLM provider.
GenerateMinutesWrongArg ==
    /\ pc = "generate_minutes"
    /\ \/ \E m \in MinutesValues :
             /\ calls' = Append(calls, [stage |-> "generate_minutes", arg |-> audio_path, ret |-> m])
             /\ minutes' = m
             /\ pc' = "render"
             /\ UNCHANGED <<error, exit_code>>
       \/ /\ calls' = Append(calls, [stage |-> "generate_minutes", arg |-> audio_path, ret |-> "raise"])
          /\ Fail("RuntimeError")
          /\ UNCHANGED minutes
    /\ UNCHANGED <<meeting_args, daemon_vars, plugins, metadata, lastcall, cleanup_log, config, validated, audio_path, transcript, output_path,
                   rendered, audio_deleted>>

\* run(), stage 3: minutes = self.llm_provider.generate_minutes(transcript)
GenerateMinutes ==
    /\ pc = "generate_minutes"
    /\ \/ \E m \in MinutesValues :
             /\ calls' = Append(calls, [stage |-> "generate_minutes", arg |-> transcript, ret |-> m])
             /\ minutes' = m
             /\ pc' = "render"
             /\ UNCHANGED <<error, exit_code>>
       \/ /\ calls' = Append(calls, [stage |-> "generate_minutes", arg |-> transcript, ret |-> "raise"])
          /\ Fail("RuntimeError")
          /\ UNCHANGED minutes
    /\ UNCHANGED <<meeting_args, daemon_vars, plugins, metadata, lastcall, cleanup_log, config, validated, audio_path, transcript, output_path,
                   rendered, audio_deleted>>

\* _setup_output_renderer: the one entry a renderer is built for.
run_target(c) == c.output[1]

\* run(), stage 4: output_path = self.output_renderer.render(minutes, meeting_id)
\* The renderer is the one built for config.output.format, whatever the
\* enabled, on_error and depends_on of that entry and whatever 'outputs'
\* holds; a failure of it is re-raised as RuntimeError like any other.
Render ==
    /\ pc = "render"
    /\ \/ \E p \in OutputPaths :
             /\ calls' = Append(calls, [stage |-> "render", arg |-> minutes, ret |-> p])
             /\ output_path' = p
             /\ rendered' = [rendered EXCEPT ![run_target(config).format] = "succeeded"]
             /\ pc' = "cleanup"
             /\ UNCHANGED <<error, exit_code>>
       \/ /\ calls' = Append(calls, [stage |-> "render", arg |-> minutes, ret |-> "raise"])
          /\ rendered' = [rendered EXCEPT ![run_target(config).format] = "failed"]
          /\ Fail("RuntimeError")
          /\ UNCHANGED output_path
    /\ UNCHANGED <<meeting_args, daemon_vars, plugins, metadata, lastcall, cleanup_log, config, validated, audio_path, transcript, minutes, audio_deleted>>

\* run(): optional cleanup of the raw audio, then return output_path.
\* The step is inside the try block: a failing unlink is re-raised as
\* RuntimeError.  The log says what the step did: "off" (cleanup_audio is
\* false), "absent" (the file does not exist), "deleted" or "raised".
Cleanup ==
    /\ pc = "cleanup"
    /\ \E exists \in BOOLEAN, unlink_ok \in BOOLEAN :
          IF config.cleanup_audio /\ exists
          THEN IF unlink_ok
               THEN /\ audio_deleted' = TRUE
                    /\ cleanup_log' = Append(cleanup_log, "deleted")
                    /\ pc' = "exit"
                    /\ exit_code' = 0
                    /\ UNCHANGED error
               ELSE /\ Fail("RuntimeError")
                    /\ cleanup_log' = Append(cleanup_log, "raised")
                    /\ UNCHANGED audio_deleted
          ELSE /\ pc' = "exit"
               /\ exit_code' = 0
               /\ cleanup_log' = Append(cleanup_log, IF config.cleanup_audio THEN "absent" ELSE "off")
               /\ UNCHANGED <<error, audio_deleted>>
    /\ UNCHANGED <<meeting_args, daemon_vars, plugins, metadata, lastcall, config, validated, audio_path, transcript,
                   minutes, output_path, calls, rendered>>

Next ==
    \/ LoadConfig
    \/ Setup
    \/ PipelineRunner_validate
    \/ Record
    \/ Transcribe
    \/ GenerateMinutes
    \/ Render
    \/ Cleanup

Spec == Init /\ [][Next]_vars

SpecGroups == InitGroups /\ [][Next]_vars

SpecExample == InitExample /\ [][Next]_vars

\* ------------------------------------------------ registry and factory calls
pipeline_vars == <<config, pc, validated, audio_path, transcript, minutes, output_path,
                   calls, rendered, audio_deleted, cleanup_log, error, exit_code>>

\* A process that has loaded the package and called no factory yet: the
\* registry singleton is empty.
InitRegistry ==
    \E i \in InputConfig :
       InitWith([input |-> i, convert |-> "passthrough", llm |-> "notebooklm",
                 output_kind |-> "single", output |-> <<OutputEntry("markdown", 0, {})>>,
                 outputs_kind |-> "none", outputs |-> << >>, cleanup_audio |-> FALSE])

Registered == {n \in Names : plugins[n] # NoClass}

\* PluginRegistry.register(name, provider_class, metadata)
Register ==
    /\ \E name \in Names, p \in PluginClasses :
          /\ name \in Registered \/ Cardinality(Registered) < MaxPlugins
          /\ plugins' = [plugins EXCEPT ![name] = p.cls]
          /\ metadata' = [metadata EXCEPT ![name] = p.provider_type]
    /\ UNCHANGED <<daemon_vars, lastcall, pipeline_vars, meeting_args>>

\* PluginRegistry.unregister(name)
Unregister ==
    /\ \E name \in Names :
          IF name \in Registered
          THEN /\ plugins' = [plugins EXCEPT ![name] = NoClass]
               /\ metadata' = [metadata EXCEPT ![name] = NoClass]
          ELSE UNCHANGED <<plugins, metadata>>
    /\ UNCHANGED <<daemon_vars, lastcall, pipeline_vars, meeting_args>>

\* A factory that asks the registry before its built-in names.
ResolvePluginFirst ==
    /\ \E kind \in StageKinds, name \in Names :
          lastcall' = [kind |-> kind, name |-> name,
                       result |-> IF get_plugin_class(plugins, name) # NoClass
                                  THEN get_plugin_class(plugins, name)
                                  ELSE resolve(plugins, kind, name)]
    /\ UNCHANGED <<daemon_vars, plugins, metadata, pipeline_vars, meeting_args>>

\* A call of the factory of a stage kind with a name.
Resolve ==
    /\ \E kind \in StageKinds, name \in Names :
          lastcall' = [kind |-> kind, name |-> name,
                       result |-> resolve(plugins, kind, name)]
    /\ UNCHANGED <<daemon_vars, plugins, metadata, pipeline_vars, meeting_args>>

NextRegistry ==
    \/ Register
    \/ Unregister
    \/ Resolve

SpecRegistry == InitRegistry /\ [][NextRegistry]_vars

TypeOK ==
    /\ pc \in {"load_config", "setup", "validate", "record", "transcribe",
               "generate_minutes", "render", "cleanup", "exit"}
    /\ exit_code \in {-1, 0, 1}
    /\ rendered \in [KnownFormats -> {"none", "succeeded", "failed"}]
    /\ Len(calls) <= 4

\* ---------------------------------------------------------------- stage runner
StageOrder == <<"record", "transcribe", "generate_minutes", "render">>

\* C1: the provider calls of a run are, in order, record, transcribe,
\* generate_minutes, render; a call is made only after the previous call
\* returned a value (did not raise), and its argument is exactly that value
\* (the first call receives the meeting id).
C1_StagesInOrder ==
    /\ Len(calls) <= Len(StageOrder)
    /\ \A i \in 1..Len(calls) :
          /\ calls[i].stage = StageOrder[i]
          /\ i = 1 => calls[i].arg \in MeetingIds
          /\ i > 1 => /\ calls[i - 1].ret # "raise"
                      /\ calls[i].arg = calls[i - 1].ret

\* A run in which all four stages were called, the transcript produced being
\* the second of the two possible ones.
C1_Witness ==
    /\ Len(calls) = 4
    /\ calls[2].ret = "transcript2"
    /\ calls[3].arg = "transcript2"
    /\ calls[4].arg = calls[3].ret

\* C2: once record, transcribe or generate_minutes has raised, that call is
\* the last provider call of the run, the command has ended with the single
\* error RuntimeError and a non-zero exit code, and no output target was
\* rendered.
C2_StageFailureAborts ==
    \A i \in 1..Len(calls) :
        (calls[i].stage \in {"record", "transcribe", "generate_minutes"}
            /\ calls[i].ret = "raise")
        => /\ i = Len(calls)
           /\ pc = "exit"
           /\ error = "RuntimeError"
           /\ exit_code = 1
           /\ \A f \in Formats : rendered[f] = "none"

\* A run whose transcribe stage raised.
C2_Witness ==
    /\ Len(calls) = 2
    /\ calls[2].stage = "transcribe"
    /\ calls[2].ret = "raise"
    /\ pc = "exit"

\* C3: a provider call is made only after validate_config of the input
\* provider, the converter, the LLM provider and the output renderer all
\* returned true; when validation failed (ValueError) no provider call was
\* made at all.
C3_ValidatedBeforeRun ==
    /\ (calls # << >> \/ pc \in {"record", "transcribe", "generate_minutes", "render", "cleanup"})
          => validated = {"input", "convert", "llm", "output"}
    /\ error = "ValueError" => (calls = << >> /\ pc = "exit" /\ exit_code = 1)

\* The output renderer failed validation after the other three passed.
C3_Witness ==
    /\ error = "ValueError"
    /\ validated = {"input", "convert", "llm"}
    /\ pc = "exit"

\* ------------------------------------------------------ output target specs
\* The vocabulary of the output target claims, over a batch b of specs.
BatchFormats(b) == {b[i].format : i \in 1..Len(b)}

UniqueFormats(b) == \A i, j \in 1..Len(b) : i # j => b[i].format # b[j].format

Dangling(b) == \E i \in 1..Len(b) : ~(b[i].depends_on \subseteq BatchFormats(b))

DepsOf(b, F) == UNION {b[i].depends_on : i \in {j \in 1..Len(b) : b[j].format \in F}}

\* The formats reachable from those in F along depends_on, in at most n steps.
RECURSIVE ReachFrom(_, _, _)
ReachFrom(b, F, n) ==
    IF n = 0 THEN {}
    ELSE DepsOf(b, F) \cup ReachFrom(b, DepsOf(b, F), n - 1)

TransitiveDeps(b, f) == ReachFrom(b, {f}, Cardinality(Formats))

HasCycle(b) == \E f \in BatchFormats(b) : f \in TransitiveDeps(b, f)

ValidSpecs(b) == UniqueFormats(b) /\ ~Dangling(b) /\ ~HasCycle(b)

\* Every enabled entry of the configuration, 'output' first.
AllEnabled(c) == EnabledOnly(c.output \o c.outputs)

Started(f) == rendered[f] # "none"
Terminal(f) == rendered[f] \in {"succeeded", "failed"}

\* The outcome the run has for a target: the result of its render call, and
\* "none" for a target that was never called.
TargetOutcome(f) == rendered[f]

OutputStageRan == Len(calls) = 4

\* The result of the output stage as the caller of run() sees it: the stage
\* returned, or its failure ended the run.
OverallSuccess == OutputStageRan /\ calls[4].ret # "raise"

\* A run over well-formed specs: the target the run renders is enabled, and
\* the enabled specs have unique formats, resolved dependencies and no cycle.
WellFormedRun ==
    /\ OutputStageRan
    /\ run_target(config).enabled
    /\ ValidSpecs(get_outputs(config))
    /\ ValidSpecs(AllEnabled(config))

\* C4: with valid specs, a target that has been started has every target
\* named in its depends_on in a terminal state.
C4_DependenciesTerminalFirst ==
    WellFormedRun
    => \A i \in 1..Len(AllEnabled(config)) :
          Started(AllEnabled(config)[i].format)
          => \A d \in AllEnabled(config)[i].depends_on : Terminal(d)

\* C5: when the depends_on graph of the enabled specs has a cycle, no output
\* target is ever started.
C5_CycleRejected ==
    HasCycle(get_outputs(config)) => \A f \in Formats : ~Started(f)

\* C6: when two enabled specs share a format, or a depends_on entry names a
\* format that is not among the enabled specs, no output target is ever
\* started.
C6_DuplicateOrDanglingRejected ==
    (~UniqueFormats(get_outputs(config)) \/ Dangling(get_outputs(config)))
    => \A f \in Formats : ~Started(f)

\* C7: when the run is over and the target that failed has on_error = stop,
\* the run is not a success and every enabled spec that was not started has
\* the outcome skipped-aborted.
C7_StopSkipsTheRest ==
    (pc = "exit" /\ WellFormedRun
        /\ run_target(config).on_error = "stop"
        /\ TargetOutcome(run_target(config).format) = "failed")
    => /\ ~OverallSuccess
       /\ \A i \in 1..Len(get_outputs(config)) :
             ~Started(get_outputs(config)[i].format)
             => TargetOutcome(get_outputs(config)[i].format) = "skipped-aborted"

\* The specs whose failure counts against the run: those with on_error = stop.
StopFormats ==
    {s.format : s \in {t \in {run_target(config)} \cup
                             {get_outputs(config)[i] : i \in 1..Len(get_outputs(config))} :
                          t.on_error = "stop"}}

\* C8: after the output stage, the run is a success exactly when no target
\* with on_error = stop has outcome failed or skipped-aborted.
C8_OverallSuccessRule ==
    WellFormedRun
    => (OverallSuccess
        <=> \A f \in StopFormats : TargetOutcome(f) \notin {"failed", "skipped-aborted"})

\* C9: a target's failure is its outcome only: no exception ends the command
\* because a render call failed.
C9_TargetFailureCaptured ==
    WellFormedRun
    => \A f \in Formats : TargetOutcome(f) = "failed" => error = "none"

\* C10: when the run is over and the target that failed has on_error =
\* continue, the run is a success and every other enabled spec that does not
\* depend on it, directly or not, has reached a terminal outcome.
C10_ContinueIsolatesFailure ==
    (pc = "exit" /\ WellFormedRun
        /\ run_target(config).on_error = "continue"
        /\ TargetOutcome(run_target(config).format) = "failed")
    => /\ OverallSuccess
       /\ \A i \in 1..Len(get_outputs(config)) :
             LET s == get_outputs(config)[i] IN
             (s.format # run_target(config).format
                /\ run_target(config).format \notin TransitiveDeps(get_outputs(config), s.format))
             => Terminal(s.format)

\* A run whose configured targets are well formed: the target the run renders
\* is enabled, and the enabled entries of the configuration have unique
\* formats, resolved dependencies and no cycle.
WellFormedTargets ==
    /\ OutputStageRan
    /\ run_target(config).enabled
    /\ ValidSpecs(AllEnabled(config))

\* C11: when the run is over, a target with a dependency whose outcome is
\* failed has the outcome skipped-dependency-failed and was never started.
C11_FailedDependencySkips ==
    (pc = "exit" /\ WellFormedTargets)
    => \A i \in 1..Len(AllEnabled(config)) :
          (\E d \in AllEnabled(config)[i].depends_on : TargetOutcome(d) = "failed")
          => /\ ~Started(AllEnabled(config)[i].format)
             /\ TargetOutcome(AllEnabled(config)[i].format) = "skipped-dependency-failed"

\* C12: when the run is over, a target one of whose dependencies ended as
\* failed or skipped-aborted has ended as skipped-dependency-failed, and in
\* particular not as succeeded.
C12_BlockedTargetOutcome ==
    (pc = "exit" /\ WellFormedTargets)
    => \A i \in 1..Len(AllEnabled(config)) :
          LET s == AllEnabled(config)[i] IN
          (\E d \in s.depends_on : TargetOutcome(d) \in {"failed", "skipped-aborted"})
          => /\ TargetOutcome(s.format) # "succeeded"
             /\ TargetOutcome(s.format) \in {"skipped-dependency-failed"}

\* C16: when a run has ended without an error, every enabled target has an
\* outcome.
C16_EveryTargetHasOutcome ==
    (pc = "exit" /\ WellFormedRun /\ error = "none")
    => \A i \in 1..Len(AllEnabled(config)) :
          TargetOutcome(AllEnabled(config)[i].format) # "none"

\* ---------------------------------------------------------------- cleanup
StageFailed ==
    \E i \in 1..Len(calls) :
        calls[i].stage \in {"record", "transcribe", "generate_minutes"} /\ calls[i].ret = "raise"

\* C17: when a run with cleanup_audio set is over and its first three stages
\* succeeded, the cleanup step has run, whether or not the output target
\* failed.
C17_CleanupAfterOutputs ==
    (pc = "exit" /\ WellFormedRun /\ config.cleanup_audio)
    => cleanup_log # << >>

\* C18: the cleanup step runs at most once; it runs only after render has
\* returned; in a run where record, transcribe or generate_minutes raised it
\* does not run and the audio is not deleted.
C18_CleanupOnceAfterOutput ==
    /\ Len(cleanup_log) <= 1
    /\ cleanup_log # << >> => (OutputStageRan /\ calls[4].ret # "raise")
    /\ audio_deleted => cleanup_log = <<"deleted">>
    /\ StageFailed => (cleanup_log = << >> /\ ~audio_deleted)

\* A finished run whose cleanup deleted the raw audio.
C18_Witness ==
    /\ pc = "exit"
    /\ audio_deleted
    /\ cleanup_log = <<"deleted">>
    /\ config.cleanup_audio

\* C19: a run whose stages and output succeeded and whose unlink of the raw
\* audio failed still ends without an error and with exit code 0.
C19_CleanupBestEffort ==
    (pc = "exit" /\ WellFormedRun /\ cleanup_log = <<"raised">>)
    => (error = "none" /\ exit_code = 0)

\* ---------------------------------------------------------- groups and waves
\* The waves of targets the run executed, in order: the sets of targets whose
\* render calls were started together.
ExecutedWaves ==
    IF OutputStageRan THEN <<{run_target(config).format}>> ELSE << >>

\* The first wave of a batch b: the formats of the specs with no dependency
\* and with no spec of a lower execution group that has wait_for_group set.
FirstWave(b) ==
    {b[i].format : i \in {j \in 1..Len(b) :
        /\ b[j].depends_on = {}
        /\ ~\E k \in 1..Len(b) : /\ b[k].execution_group < b[j].execution_group
                                 /\ b[k].wait_for_group}}

\* C13: a started target has every enabled target of a strictly lower
\* execution group with wait_for_group set in a terminal state.
C13_LowerGroupsFirst ==
    WellFormedRun
    => \A i, j \in 1..Len(AllEnabled(config)) :
          (/\ Started(AllEnabled(config)[i].format)
           /\ AllEnabled(config)[j].execution_group < AllEnabled(config)[i].execution_group
           /\ AllEnabled(config)[j].wait_for_group)
          => Terminal(AllEnabled(config)[j].format)

\* C14: for the example specs, a command that has ended without any error
\* (every provider call made has succeeded) has executed the waves
\* {url, markdown}, {pdf}, {webhook}, in this order, and the output stage was
\* a success.
C14_ExampleWaves ==
    (/\ pc = "exit"
     /\ get_outputs(config) = ExampleSpecs
     /\ error = "none"
     /\ \A i \in 1..Len(calls) : calls[i].ret # "raise")
    => /\ ExecutedWaves = <<{"url", "markdown"}, {"pdf"}, {"webhook"}>>
       /\ OverallSuccess

\* C15: when the run is over and a target of the first wave with on_error =
\* stop has failed, every target of that wave has its own outcome, succeeded
\* or failed.
C15_WaveMatesFinish ==
    (pc = "exit" /\ WellFormedRun
        /\ run_target(config).on_error = "stop"
        /\ run_target(config).format \in FirstWave(AllEnabled(config))
        /\ TargetOutcome(run_target(config).format) = "failed")
    => \A f \in FirstWave(AllEnabled(config)) : TargetOutcome(f) \in {"succeeded", "failed"}

\* ------------------------------------------------------- provider resolution
PluginClassNames == {p.cls : p \in PluginClasses}

\* What the factory of a kind returns for a name while nothing is registered.
BuiltinResult(kind, name) == resolve([n \in Names |-> NoClass], kind, name)

\* The names a built-in provider of the kind handles.
BuiltinHandles(kind, name) ==
    BuiltinResult(kind, name) \notin {"ValueError", "NotImplementedError"}

\* C20: for a name that a built-in provider handles, the factory returns the
\* built-in implementation whatever the registry holds, never a registered
\* plugin.
C20_BuiltinPrecedence ==
    (lastcall.kind \in StageKinds /\ BuiltinHandles(lastcall.kind, lastcall.name))
    => /\ lastcall.result = BuiltinResult(lastcall.kind, lastcall.name)
       /\ lastcall.result \notin PluginClassNames

\* A plugin is registered under the name "file" and the input factory, called
\* with that name, has returned the built-in FileProvider.
C20_Witness ==
    /\ lastcall.kind = "input"
    /\ lastcall.name = <<"f", "i", "l", "e">>
    /\ plugins[lastcall.name] = "OverrideFileProvider"
    /\ lastcall.result = "FileProvider"

\* A name that every factory's normalisation leaves as it is.
Canonical(name) == replace(replace(lower(name), "_", "-"), " ", "-") = name

\* C21: a factory call with a canonical name that no built-in handles (with
\* nothing registered the call fails with the not-found error) returns the
\* plugin registered under that name at the time of the call if there is one,
\* and fails with the not-found error otherwise; for every stage kind.
C21_PluginFallback ==
    [][(/\ lastcall' # lastcall
        /\ Canonical(lastcall'.name)
        /\ BuiltinResult(lastcall'.kind, lastcall'.name) = "ValueError")
       => lastcall'.result = IF plugins[lastcall'.name] # NoClass
                             THEN plugins[lastcall'.name]
                             ELSE "ValueError"]_vars

\* ------------------------------------------------- enabled specs and cohorts
\* C22: a disabled spec is never executed: a format whose render was started
\* is the format of a spec of the configuration with enabled = true.
C22_DisabledNeverExecuted ==
    \A f \in KnownFormats :
       Started(f) => \E i \in 1..Len(config.output \o config.outputs) :
                        /\ (config.output \o config.outputs)[i].format = f
                        /\ (config.output \o config.outputs)[i].enabled

\* ------------------------------------------- config.py: loading and saving
\* The entries of an output section of a configuration file, with the values
\* a file can give to on_error and execution_group.
LoadedOutputConfig ==
    [format : Formats,
     enabled : BOOLEAN,
     on_error : {"continue", "stop", "retry"},
     execution_group : (-1)..MaxGroup,
     depends_on : {{}},
     wait_for_group : {TRUE}]

\* dict.get(key, default)
dict_get(d, key, default) == IF key \in DOMAIN d THEN d[key] ELSE default

\* from_dict: the OutputConfig built from one entry of the data.
OutputConfig_from(out) ==
    [format |-> out.format,
     enabled |-> dict_get(out, "enabled", TRUE),
     on_error |-> dict_get(out, "on_error", "continue"),
     execution_group |-> dict_get(out, "execution_group", 0),
     depends_on |-> dict_get(out, "depends_on", {}),
     wait_for_group |-> dict_get(out, "wait_for_group", TRUE)]

\* PipelineConfig.from_dict: the configuration object built from the data.
from_dict(data) ==
    [data EXCEPT !.output = [k \in 1..Len(data.output) |-> OutputConfig_from(data.output[k])],
                 !.outputs = [k \in 1..Len(data.outputs) |-> OutputConfig_from(data.outputs[k])]]

\* PipelineConfig.to_dict: 'outputs' is written with every field, 'output'
\* with format (and params) only.
to_dict(c) ==
    IF c.outputs # << >>
    THEN [c EXCEPT !.output_kind = "none", !.output = << >>, !.outputs_kind = "list"]
    ELSE IF c.output # << >>
    THEN [c EXCEPT !.outputs_kind = "none",
                   !.output = [k \in 1..Len(c.output) |-> [format |-> c.output[k].format]]]
    ELSE [c EXCEPT !.output_kind = "none", !.outputs_kind = "none"]

\* save() then load_config(): the configuration loaded back, or the error.
save_and_load(c) ==
    IF validate_structure(to_dict(c)) # {}
    THEN [error |-> "ConfigValidationError", config |-> << >>]
    ELSE IF PipelineConfig_validate(from_dict(to_dict(c))) # {}
    THEN [error |-> "ConfigValidationError", config |-> << >>]
    ELSE [error |-> "none", config |-> from_dict(to_dict(c))]

\* The loop of get_execution_groups over the outputs left, into groups.
RECURSIVE group_outputs(_, _)
group_outputs(outs, groups) ==
    IF outs = << >> THEN groups
    ELSE LET group_id == Head(outs).execution_group
             known == IF group_id \in DOMAIN groups THEN groups
                      ELSE groups @@ (group_id :> << >>)
         IN  group_outputs(Tail(outs),
                           [known EXCEPT ![group_id] = Append(known[group_id], Head(outs))])

\* PipelineConfig.get_execution_groups
get_execution_groups(c) == group_outputs(get_outputs(c), << >>)

\* The configuration files: a single 'output', an 'output' list or an
\* 'outputs' list.
InitConfig ==
    \E i \in InputConfig, n \in 0..MaxOutputs :
       \E o \in [1..n -> LoadedOutputConfig] :
          \/ /\ n = 1
             /\ InitWith([input |-> i, convert |-> "passthrough", llm |-> "notebooklm",
                          output_kind |-> "single", output |-> o,
                          outputs_kind |-> "none", outputs |-> << >>, cleanup_audio |-> FALSE])
          \/ InitWith([input |-> i, convert |-> "passthrough", llm |-> "notebooklm",
                       output_kind |-> "list", output |-> o,
                       outputs_kind |-> "none", outputs |-> << >>, cleanup_audio |-> FALSE])
          \/ InitWith([input |-> i, convert |-> "passthrough", llm |-> "notebooklm",
                       output_kind |-> "none", output |-> << >>,
                       outputs_kind |-> "list", outputs |-> o, cleanup_audio |-> FALSE])

\* config.get_outputs() on a loaded configuration
GetOutputs ==
    /\ pc = "setup"
    /\ lastcall' = [kind |-> "get_outputs", name |-> << >>, result |-> get_outputs(config)]
    /\ UNCHANGED <<daemon_vars, plugins, metadata, pipeline_vars, meeting_args>>

\* get_execution_groups that groups the disabled outputs too.
GetExecutionGroupsUnfiltered ==
    /\ pc = "setup"
    /\ lastcall' = [kind |-> "get_execution_groups", name |-> << >>,
                    result |-> group_outputs(config.output \o config.outputs, << >>)]
    /\ UNCHANGED <<daemon_vars, plugins, metadata, pipeline_vars, meeting_args>>

\* config.get_execution_groups() on a loaded configuration
GetExecutionGroups ==
    /\ pc = "setup"
    /\ lastcall' = [kind |-> "get_execution_groups", name |-> << >>,
                    result |-> get_execution_groups(config)]
    /\ UNCHANGED <<daemon_vars, plugins, metadata, pipeline_vars, meeting_args>>

\* config.save(path) followed by load_config(path)
SaveAndLoad ==
    /\ pc = "setup"
    /\ lastcall' = [kind |-> "save_and_load", name |-> << >>, result |-> save_and_load(config)]
    /\ UNCHANGED <<daemon_vars, plugins, metadata, pipeline_vars, meeting_args>>

NextConfig ==
    \/ LoadConfig
    \/ GetOutputs
    \/ GetExecutionGroups
    \/ SaveAndLoad

SpecConfig == InitConfig /\ [][NextConfig]_vars

\* The entries of the output section of the configuration, in file order.
ConfiguredSpecs == config.output \o config.outputs

C24_AcceptedSpecsAreValid ==
    (pc = "setup" /\ error = "none")
    => \A k \in 1..Len(ConfiguredSpecs) :
          /\ ConfiguredSpecs[k].on_error \in {"continue", "stop"}
          /\ ConfiguredSpecs[k].execution_group >= 0

\* ------------------------------------------------------------------ retries
\* C25: in a run each of record, transcribe and generate_minutes is called at
\* most once, also when a stage fails.
C25_NoStageRetried ==
    \A st \in {"record", "transcribe", "generate_minutes"} :
       Cardinality({k \in 1..Len(calls) : calls[k].stage = st}) <= 1

\* The run has ended with the failure of the transcribe call, which was the
\* second and last call made.
C25_Witness ==
    /\ pc = "exit"
    /\ Len(calls) = 2
    /\ calls[2].stage = "transcribe"
    /\ calls[2].ret = "raise"

\* ---------------------------------------------------------------- exit code
\* C26: when the command has ended, the exit code is 0 if the run was a
\* success (the four stages were called and none of them raised) and is not
\* 0 otherwise.
C26_ExitCodeReflectsResult ==
    pc = "exit" => (exit_code = 0 <=> OverallSuccess)

\* --------------------------------------------------------------- round trip
\* C27: saving an accepted configuration whose output specs have on_error
\* in {continue, stop} and an execution_group of at least 0, and that has at
\* least one enabled output target, and loading it back gives a configuration
\* with the same stage providers and the same list of enabled output targets,
\* with the same enabled, on_error, execution_group, depends_on and
\* wait_for_group values.
C27_SaveLoadRoundTrip ==
    (/\ lastcall.kind = "save_and_load"
     /\ get_outputs(config) # << >>
     /\ \A k \in 1..Len(ConfiguredSpecs) :
           /\ ConfiguredSpecs[k].on_error \in {"continue", "stop"}
           /\ ConfiguredSpecs[k].execution_group >= 0)
    => /\ lastcall.result.error = "none"
       /\ lastcall.result.config.input = config.input
       /\ lastcall.result.config.convert = config.convert
       /\ lastcall.result.config.llm = config.llm
       /\ get_outputs(lastcall.result.config) = get_outputs(config)
\* -------------------------------------------------------------- DiscordDaemon
\* The state a handler works on: the two dictionaries, the callback calls
\* made, and whether a notification was sent (the await that can suspend).
DaemonState ==
    [active |-> active_recordings, last |-> last_recording, calls |-> callbacks,
     notified |-> FALSE]

\* _send_notification: posts only when a webhook_url is configured.
send_notification(d) == [d EXCEPT !.notified = d.notified \/ daemon_config.webhook_url]

\* generate_meeting_id('discord', channel.name) at the current time
daemon_meeting_id(ch) == [channel |-> ch, at |-> now]

\* DiscordDaemon._start_recording
start_recording(d, ch) ==
    IF d.active[ch] # NoMeeting THEN d
    ELSE send_notification(
            [d EXCEPT !.active[ch] = daemon_meeting_id(ch),
                      !.last[ch] = now,
                      !.calls = Append(d.calls, [cb |-> "start", channel |-> ch,
                                                 meeting_id |-> daemon_meeting_id(ch)])])

\* DiscordDaemon._stop_recording
stop_recording(d, ch) ==
    IF d.active[ch] = NoMeeting THEN d
    ELSE send_notification(
            [d EXCEPT !.active[ch] = NoMeeting,
                      !.calls = Append(d.calls, [cb |-> "end", channel |-> ch,
                                                 meeting_id |-> d.active[ch]])])

\* DiscordDaemon._on_user_joined, with user_count non-bot members in ch
on_user_joined(d, ch, user_count) ==
    IF daemon_config.channel_ids # {} /\ ch \notin daemon_config.channel_ids THEN d
    ELSE IF user_count >= min_users
    THEN IF d.last[ch] # Never /\ timedelta_seconds(now - d.last[ch]) < cooldown THEN d
         ELSE IF daemon_config.mode = "notify" THEN send_notification(d)
         ELSE IF daemon_config.mode = "auto_record" THEN start_recording(d, ch)
         ELSE d
    ELSE d

\* DiscordDaemon._on_user_left, with user_count non-bot members in ch
on_user_left(d, ch, user_count) ==
    IF user_count < min_users /\ d.active[ch] # NoMeeting
    THEN IF daemon_config.mode = "auto_record" THEN stop_recording(d, ch)
         ELSE IF daemon_config.mode = "notify" THEN send_notification(d)
         ELSE d
    ELSE d

\* The handler's writes to the daemon, d being what it has computed.
Commit(d) ==
    /\ Len(d.calls) <= MaxCallbacks
    /\ active_recordings' = d.active
    /\ last_recording' = d.last
    /\ callbacks' = d.calls

InitDaemon ==
    \E cfg \in DaemonConfig :
       /\ InitRun([input |-> [provider |-> "discord", params |-> {}], convert |-> "passthrough", llm |-> "notebooklm",
                   output_kind |-> "single", output |-> <<OutputEntry("markdown", 0, {})>>,
                   outputs_kind |-> "none", outputs |-> << >>, cleanup_audio |-> FALSE])
       /\ DiscordDaemon_init(cfg)
       /\ meeting_args = [source |-> <<"d", "i", "s", "c", "o", "r", "d">>, channel |-> <<"g", "e", "n", "e", "r", "a", "l">>, start_time |-> StartTimes[1]]

\* Time passes: half a cooldown, or a day.
Tick ==
    /\ \/ /\ (now % SecondsPerDay) \div (cooldown \div 2) < MaxSteps
          /\ now' = now + cooldown \div 2
       \/ /\ now \div SecondsPerDay < MaxDays
          /\ now' = now + SecondsPerDay
    /\ UNCHANGED <<daemon_config, members, active_recordings, last_recording, callbacks,
                   pending, plugins, metadata, lastcall, pipeline_vars, meeting_args>>

\* on_voice_state_update: a member joins ch from no channel.
UserJoined ==
    /\ \E ch \in Channels :
          /\ members[ch] < MaxUsers
          /\ members' = [members EXCEPT ![ch] = @ + 1]
          /\ Commit(on_user_joined(DaemonState, ch, members[ch] + 1))
    /\ UNCHANGED <<daemon_config, now, pending, plugins, metadata, lastcall, pipeline_vars, meeting_args>>

\* on_voice_state_update: a member leaves ch for no channel.
UserLeft ==
    /\ \E ch \in Channels :
          /\ members[ch] > 0
          /\ members' = [members EXCEPT ![ch] = @ - 1]
          /\ Commit(on_user_left(DaemonState, ch, members[ch] - 1))
    /\ UNCHANGED <<daemon_config, now, pending, plugins, metadata, lastcall, pipeline_vars, meeting_args>>

\* on_voice_state_update: a member moves from one channel to another.
\* _handle_voice_update awaits _on_user_joined and then _on_user_left: when
\* the first has posted a notification the handler may be suspended there,
\* and _on_user_left runs later, in ResumeUserLeft.
UserMoved ==
    /\ \E from \in Channels, to \in Channels :
          /\ from # to
          /\ members[from] > 0
          /\ members[to] < MaxUsers
          /\ from \notin pending
          /\ members' = [members EXCEPT ![from] = @ - 1, ![to] = @ + 1]
          /\ LET joined == on_user_joined(DaemonState, to, members[to] + 1)
             IN  \E suspended \in (IF joined.notified THEN BOOLEAN ELSE {FALSE}) :
                    IF suspended
                    THEN /\ Commit(joined)
                         /\ pending' = pending \cup {from}
                    ELSE /\ Commit(on_user_left(joined, from, members[from] - 1))
                         /\ UNCHANGED pending
    /\ UNCHANGED <<daemon_config, now, plugins, metadata, lastcall, pipeline_vars, meeting_args>>

\* The suspended handler of a move resumes and awaits _on_user_left.
ResumeUserLeft ==
    /\ \E ch \in pending :
          /\ pending' = pending \ {ch}
          /\ Commit(on_user_left(DaemonState, ch, members[ch]))
    /\ UNCHANGED <<daemon_config, members, now, plugins, metadata, lastcall, pipeline_vars, meeting_args>>

\* A record command that starts a recording without looking at
\* _active_recordings.
RecordCommandUnchecked ==
    /\ \E ch \in Channels :
          /\ members[ch] > 0
          /\ Commit(start_recording([DaemonState EXCEPT !.active[ch] = NoMeeting], ch))
    /\ UNCHANGED <<daemon_config, members, now, pending, plugins, metadata, lastcall,
                   pipeline_vars, meeting_args>>

\* The record command of a member who is in voice channel ch.
RecordCommand ==
    /\ \E ch \in Channels :
          /\ members[ch] > 0
          /\ Commit(start_recording(DaemonState, ch))
    /\ UNCHANGED <<daemon_config, members, now, pending, plugins, metadata, lastcall,
                   pipeline_vars, meeting_args>>

\* The stop command of a member who is in voice channel ch.
StopCommand ==
    /\ \E ch \in Channels :
          /\ members[ch] > 0
          /\ Commit(stop_recording(DaemonState, ch))
    /\ UNCHANGED <<daemon_config, members, now, pending, plugins, metadata, lastcall,
                   pipeline_vars, meeting_args>>

NextDaemon ==
    \/ Tick
    \/ UserJoined
    \/ UserLeft
    \/ UserMoved
    \/ ResumeUserLeft
    \/ RecordCommand
    \/ StopCommand

SpecDaemon == InitDaemon /\ [][NextDaemon]_vars

\* ----------------------------------------------------- recordings of a channel
\* The callback calls made for channel ch, in order.
CallbacksOf(ch) == SelectSeq(callbacks, LAMBDA c : c.channel = ch)

C29_CooldownRule ==
    [][\A ch \in Channels :
          (/\ members'[ch] = members[ch] + 1
           /\ daemon_config.mode = "auto_record"
           /\ (daemon_config.channel_ids = {} \/ ch \in daemon_config.channel_ids)
           /\ members'[ch] >= min_users
           /\ active_recordings[ch] = NoMeeting)
          => (active_recordings'[ch] # NoMeeting
                <=> (last_recording[ch] = Never \/ now - last_recording[ch] >= cooldown))]_vars
\* ------------------------------------------------------------- meeting ids
\* The arguments: a source, a non-empty channel over ChannelChars, a start time.
InitMeetingId ==
    \E src \in Sources, n \in 1..MaxChannelLen, k \in 1..Len(StartTimes) :
       \E ch \in [1..n -> ChannelChars] :
          /\ InitRun([input |-> [provider |-> "file", params |-> {"audio_path"}],
                      convert |-> "passthrough", llm |-> "notebooklm",
                      output_kind |-> "single", output |-> <<OutputEntry("markdown", 0, {})>>,
                      outputs_kind |-> "none", outputs |-> << >>, cleanup_audio |-> FALSE])
          /\ DiscordDaemon_init([mode |-> "notify", channel_ids |-> {}, webhook_url |-> FALSE])
          /\ meeting_args = [source |-> src, channel |-> ch, start_time |-> StartTimes[k]]

\* generate_meeting_id(source, channel, start_time), then
\* parse_meeting_id_extended of the id.
GenerateMeetingId ==
    /\ lastcall' = [kind |-> "generate_meeting_id",
                    name |-> generate_meeting_id(meeting_args.source, meeting_args.channel,
                                                 meeting_args.start_time),
                    result |-> parse_meeting_id_extended(
                                  generate_meeting_id(meeting_args.source, meeting_args.channel,
                                                      meeting_args.start_time))]
    /\ UNCHANGED <<daemon_vars, plugins, metadata, pipeline_vars, meeting_args>>

NextMeetingId == GenerateMeetingId

SpecMeetingId == InitMeetingId /\ [][NextMeetingId]_vars

\* C30: the id generated for a source, a channel and a start time is valid,
\* and parsing it gives the start time truncated to the minute, the sanitized
\* source and the whole sanitized channel.
C30_MeetingIdRoundTrip ==
    lastcall.kind = "generate_meeting_id"
    => /\ validate_meeting_id(lastcall.name)
       /\ lastcall.result.start_time = [meeting_args.start_time EXCEPT !.second = 0]
       /\ lastcall.result.source = sanitize_component(lower(meeting_args.source))
       /\ lastcall.result.channel = sanitize_component(meeting_args.channel)
====
